---- MODULE Spec2Model ----
(***************************************************************************)
(* A model of the ms-numpress nibble codecs (MSNumpress.cpp): encodeInt /  *)
(* decodeInt, encodeLinear / decodeLinear and encodeCount / decodeCount.   *)
(*                                                                         *)
(* Representation.                                                         *)
(*  - A 32-bit machine word (int / unsigned int) is a tuple of 8 nibbles,  *)
(*    least significant nibble first.  All arithmetic on words is modulo   *)
(*    2^32, as on the two's complement targets the library is built for.   *)
(*  - A mathematical integer beyond the 32-bit integers of TLC is a        *)
(*    pair <<h, l>> standing for h * 65536 + l with l in 0..65535.         *)
(*  - A double is a record [q |-> <<h, l>>, f |-> 0..9] standing for the   *)
(*    real number q + f/10.  For the linear codec the unit is 1e-5 (the    *)
(*    record holds data[i] * 100000), for the count codec the unit is 1.   *)
(*    Floating point rounding of the product itself is not modelled.       *)
(***************************************************************************)
EXTENDS Integers, Sequences, FiniteSets, TLC

\* ------------------------------------------------------------------------
\* Bounds of the model
\* ------------------------------------------------------------------------
\* longest input array of doubles handed to an encoder
MaxLen == 3
\* longest tail of sample bytes in a caller-supplied (possibly malformed) buffer
MaxRaw == 3

\* ------------------------------------------------------------------------
\* 32-bit words as 8 nibbles, least significant first
\* ------------------------------------------------------------------------
ZERO == <<0, 0, 0, 0, 0, 0, 0, 0>>
\* int mask = 0xf0000000
MASK == <<0, 0, 0, 0, 0, 0, 0, 15>>

\* a word written most significant nibble first, as in a hexadecimal literal
Hex(s) == [k \in 1..8 |-> s[9 - k]]

Bit(a, k) == (a \div (2 ^ k)) % 2
And4(a, b) == Bit(a, 0) * Bit(b, 0) + 2 * Bit(a, 1) * Bit(b, 1)
              + 4 * Bit(a, 2) * Bit(b, 2) + 8 * Bit(a, 3) * Bit(b, 3)
Or4(a, b) == a + b - And4(a, b)
\* x & y and x | y on 32-bit words
And32(x, y) == [k \in 1..8 |-> And4(x[k], y[k])]
Or32(x, y) == [k \in 1..8 |-> Or4(x[k], y[k])]

\* x >> (4*i) on a signed int: arithmetic shift, the sign nibble is replicated
SarNib(x, i) == [k \in 1..8 |-> IF k + i <= 8 THEN x[k + i]
                                ELSE IF x[8] >= 8 THEN 15 ELSE 0]
\* x << (4*i)
ShlNib(x, i) == [k \in 1..8 |-> IF k - i >= 1 THEN x[k - i] ELSE 0]

\* x + y and x - y modulo 2^32 (ripple carry over the nibbles)
RECURSIVE AddNibs(_, _, _, _)
AddNibs(x, y, k, carry) ==
    IF k > 8 THEN <<>>
    ELSE LET s == x[k] + y[k] + carry
         IN <<s % 16>> \o AddNibs(x, y, k + 1, s \div 16)
Add32(x, y) == AddNibs(x, y, 1, 0)
Not32(x) == [k \in 1..8 |-> 15 - x[k]]
Sub32(x, y) == AddNibs(x, Not32(y), 1, 1)

\* conversion of a word to unsigned char: its low 8 bits
LowByte(x) == x[1] + 16 * x[2]
\* an unsigned char promoted to int
ByteWord(b) == <<b % 16, b \div 16, 0, 0, 0, 0, 0, 0>>
\* (x >> (i*8)) & 0xff on an unsigned int
ByteOf(x, i) == x[2 * i + 1] + 16 * x[2 * i + 2]

Min(S) == CHOOSE m \in S : \A n \in S : m <= n

\* ------------------------------------------------------------------------
\* Large integers <<h, l>> = h * 65536 + l, and doubles [q, f] = q + f/10
\* ------------------------------------------------------------------------
BigInc(b) == IF b[2] = 65535 THEN <<b[1] + 1, 0>> ELSE <<b[1], b[2] + 1>>
BigNeg(b) == b[1] < 0
\* the 16-bit half h as four nibbles, least significant first
Nibs16(h) == <<h % 16, (h \div 16) % 16, (h \div 256) % 16, (h \div 4096) % 16>>
\* the low 32 bits of a large integer (conversion to a 32-bit integer type)
BigWord(b) == Nibs16(b[2]) \o Nibs16(b[1] % 65536)
Half16(x, k) == x[k] + 16 * x[k + 1] + 256 * x[k + 2] + 4096 * x[k + 3]
\* the value of a word read as unsigned int, and read as (signed) int
UnsignedBig(x) == <<Half16(x, 5), Half16(x, 1)>>
SignedBig(x) == <<IF x[8] >= 8 THEN Half16(x, 5) - 65536 ELSE Half16(x, 5), Half16(x, 1)>>

\* d + 0.5 converted to an integer type: the fraction is discarded (truncation
\* toward zero).  With c the carry of f + 5 and r the remaining tenths,
\* d + 0.5 = (q + c) + r/10, which truncates to q + c, or to q + c + 1 when it
\* is negative and not whole.
TruncPlusHalf(d) ==
    LET qc == IF d.f >= 5 THEN BigInc(d.q) ELSE d.q
        r == (d.f + 5) % 10
    IN IF BigNeg(qc) /\ r > 0 THEN BigInc(qc) ELSE qc

\* The outcomes of converting a double whose truncated value the destination
\* type cannot hold (undefined behaviour): the low bits of the wide integer
\* (x86-64 cvttsd2si) or saturation (AArch64 fcvtzu).
CastModes == {"wrap", "saturate"}
Saturated(t) == IF BigNeg(t) THEN ZERO ELSE Hex(<<15, 15, 15, 15, 15, 15, 15, 15>>)

\* ints[k] = data[i] * 100000 + 0.5, a double converted to unsigned int
DoubleToUInt(d, mode) ==
    LET t == TruncPlusHalf(d)
    IN IF t[1] >= 0 /\ t[1] <= 65535 THEN BigWord(t)
       ELSE IF mode = "wrap" THEN BigWord(t) ELSE Saturated(t)

\* count = data[i] + 0.5, a double converted to size_t (64 bits), then passed
\* to encodeInt(int x, ...), which keeps its low 32 bits
DoubleToCount(d, mode) ==
    LET t == TruncPlusHalf(d)
    IN IF t[1] >= 0 THEN BigWord(t)
       ELSE IF mode = "wrap" THEN BigWord(t) ELSE ZERO

\* ------------------------------------------------------------------------
\* encodeInt
\* ------------------------------------------------------------------------
\* l = 8; for (i=0; i<8; i++) { m = mask >> (4*i); if ((x & m) != 0) { l = i; break; } }
LeadingZeros(x) ==
    LET S == {i \in 0..7 : And32(x, SarNib(MASK, i)) # ZERO}
    IN IF S = {} THEN 8 ELSE Min(S)

\* Mutant of LeadingOnes: the run of ones is not capped at 7 (l starts at 8, as
\* in the zeros branch).
LeadingOnesUncapped(x) ==
    LET S == {i \in 0..7 : And32(x, SarNib(MASK, i)) # SarNib(MASK, i)}
    IN IF S = {} THEN 8 ELSE Min(S)

\* l = 7; for (i=0; i<8; i++) { m = mask >> (4*i); if ((x & m) != m) { l = i; break; } }
LeadingOnes(x) ==
    LET S == {i \in 0..7 : And32(x, SarNib(MASK, i)) # SarNib(MASK, i)}
    IN IF S = {} THEN 7 ELSE Min(S)

\* for (i=l; i<8; i++) res[1+i-l] = x >> (4*(i-l));   (stored as unsigned char)
RestHalfBytes(x, l) == [j \in 1..(8 - l) |-> LowByte(SarNib(x, j - 1))]

\* res[0] = l   (zeros)   and   res[0] = l + 8   (ones)
ZerosHeader(l) == l
OnesHeader(l) == l + 8

\* The unsigned chars encodeInt writes to res[0..]; their number is what it
\* adds to *res_length.
EncodeInt(x) ==
    LET init == And32(x, MASK)
    IN IF init = ZERO
         THEN <<ZerosHeader(LeadingZeros(x))>> \o RestHalfBytes(x, LeadingZeros(x))
       ELSE IF init = MASK
         THEN <<OnesHeader(LeadingOnes(x))>> \o RestHalfBytes(x, LeadingOnes(x))
       ELSE <<0>> \o RestHalfBytes(x, 0)

\* the 4-bit values that reach the output: every consumer of halfBytes[] keeps
\* the low nibble only ("& 0xf", or "<< 4" stored in an unsigned char)
LowNibbles(hb) == [j \in 1..Len(hb) |-> hb[j] % 16]

\* ------------------------------------------------------------------------
\* The nibble packing shared by encodeLinear and encodeCount
\* ------------------------------------------------------------------------
\* for (hbi=1; hbi < halfByteCount; hbi+=2)
\*     result[ri++] = (halfBytes[hbi-1] << 4) | (halfBytes[hbi] & 0xf);
PackedBytes(hb) ==
    [k \in 1..(Len(hb) \div 2) |-> ((hb[2 * k - 1] * 16) % 256) + (hb[2 * k] % 16)]

\* if (halfByteCount % 2 != 0) { halfBytes[0] = halfBytes[halfByteCount-1];
\*     halfByteCount = 1; } else halfByteCount = 0;
Leftover(hb) == IF Len(hb) % 2 # 0 THEN <<hb[Len(hb)]>> ELSE <<>>

\* Mutant of FlushTail: the final byte is padded with the nibble 0x8.
FlushTailPadsEight(hb) == IF Len(hb) = 1 THEN <<((hb[1] * 16) % 256) + 8>> ELSE <<>>

\* if (halfByteCount == 1) { result[ri] = halfBytes[0] << 4; ri++; }
FlushTail(hb) == IF Len(hb) = 1 THEN <<(hb[1] * 16) % 256>> ELSE <<>>

\* One pass of the loop body from the encodeInt call on.  st.hb is
\* halfBytes[0 .. halfByteCount-1], st.out the bytes written to result so far;
\* st.ints and st.nibs record the integers given to encodeInt and the nibbles
\* each call emitted.
AppendInt(st, x) ==
    LET hb == st.hb \o EncodeInt(x)
    IN [st EXCEPT !.hb = Leftover(hb),
                  !.out = st.out \o PackedBytes(hb),
                  !.ints = Append(st.ints, x),
                  !.nibs = Append(st.nibs, LowNibbles(EncodeInt(x)))]

\* ------------------------------------------------------------------------
\* encodeLinear
\* ------------------------------------------------------------------------
\* Mutant of Extrapol: the previous value is the prediction (no slope).
ExtrapolNoSlope(i0, i1) == i1

\* extrapol = ints[1] + (ints[1] - ints[0])
Extrapol(i0, i1) == Add32(i1, Sub32(i1, i0))

\* result[0+i] = (ints[1] >> (i*8)) & 0xff;  result[4+i] = (ints[2] >> (i*8)) & 0xff;
HeaderBytes(i1, i2) ==
    <<ByteOf(i1, 0), ByteOf(i1, 1), ByteOf(i1, 2), ByteOf(i1, 3),
      ByteOf(i2, 0), ByteOf(i2, 1), ByteOf(i2, 2), ByteOf(i2, 3)>>

\* for (i=2; i<dataSize; i++) { ... }; i counts from 1 here, so it starts at 3
RECURSIVE EncodeLinearLoop(_, _, _, _)
EncodeLinearLoop(data, mode, i, st) ==
    IF i > Len(data) THEN st
    ELSE LET i0 == st.i1
             i1 == st.i2
             i2 == DoubleToUInt(data[i], mode)
             diff == Sub32(i2, Extrapol(i0, i1))
             st2 == AppendInt(st, diff)
         IN EncodeLinearLoop(data, mode, i + 1,
                [st2 EXCEPT !.i1 = i1, !.i2 = i2, !.fixed = Append(st.fixed, i2)])

\* encodeLinear(data, dataSize, result, &resultByteCount).  data[0] and data[1]
\* are read whatever dataSize is: beyond the array the read yields an arbitrary
\* double, junk.  The result holds the bytes written (their number is
\* *resultByteCount) and, for reference, the fixed-point words, the residuals
\* passed to encodeInt and the nibbles emitted for each.
EncodeLinear(data, mode, junk) ==
    LET d1 == IF Len(data) >= 1 THEN data[1] ELSE junk
        d2 == IF Len(data) >= 2 THEN data[2] ELSE junk
        i1 == DoubleToUInt(d1, mode)
        i2 == DoubleToUInt(d2, mode)
        st == EncodeLinearLoop(data, mode, 3,
                 [i1 |-> i1, i2 |-> i2, hb |-> <<>>, out |-> HeaderBytes(i1, i2),
                  ints |-> <<>>, nibs |-> <<>>, fixed |-> <<i1, i2>>])
    IN [bytes |-> st.out \o FlushTail(st.hb), ints |-> st.ints,
        nibs |-> st.nibs, fixed |-> st.fixed]

\* ------------------------------------------------------------------------
\* encodeCount
\* ------------------------------------------------------------------------
RECURSIVE EncodeCountLoop(_, _, _, _)
EncodeCountLoop(data, mode, i, st) ==
    IF i > Len(data) THEN st
    ELSE EncodeCountLoop(data, mode, i + 1, AppendInt(st, DoubleToCount(data[i], mode)))

EncodeCount(data, mode) ==
    LET st == EncodeCountLoop(data, mode, 1,
                 [hb |-> <<>>, out |-> <<>>, ints |-> <<>>, nibs |-> <<>>])
    IN [bytes |-> st.out \o FlushTail(st.hb), ints |-> st.ints,
        nibs |-> st.nibs, fixed |-> <<>>]

\* ------------------------------------------------------------------------
\* decodeInt
\* ------------------------------------------------------------------------
\* data[i] on the std::vector: no bounds check.  At or beyond data.size() the
\* read is undefined behaviour; when it does not fault it yields whatever byte
\* lies there, modelled as the arbitrary byte g.
ReadByte(data, g, i) == IF i < Len(data) THEN data[i + 1] ELSE g

Max(a, b) == IF a >= b THEN a ELSE b

\* if (*half == 0) hb = data[*di] >> 4; else { hb = data[*di] & 0xf; (*di)++; }
\* *half = 1 - (*half);
\* cur is the cursor (di, half); cur.maxRead is the greatest index read so far.
NextNibble(data, g, cur) ==
    [nib |-> IF cur.half = 0 THEN ReadByte(data, g, cur.di) \div 16
                             ELSE ReadByte(data, g, cur.di) % 16,
     cur |-> [di |-> IF cur.half = 0 THEN cur.di ELSE cur.di + 1,
              half |-> 1 - cur.half,
              maxRead |-> Max(cur.maxRead, cur.di)]]

\* Mutant of HeadCount: the comparison is strict.
HeadCountStrict(head) == IF head < 8 THEN head ELSE head - 8

\* if (head <= 8) n = head; else n = head - 8;
HeadCount(head) == IF head <= 8 THEN head ELSE head - 8

\* for (i=0; i<n; i++) { m = mask >> (4*i); *res = *res | m; }
RECURSIVE FillOnes(_, _, _)
FillOnes(i, n, res) ==
    IF i >= n THEN res ELSE FillOnes(i + 1, n, Or32(res, SarNib(MASK, i)))

\* for (i=n; i<8; i++) { hb = next nibble; *res = *res | (hb << ((i-n)*4)); }
RECURSIVE DecodeIntLoop(_, _, _, _, _, _)
DecodeIntLoop(data, g, i, n, cur, res) ==
    IF i >= 8 THEN [res |-> res, cur |-> cur]
    ELSE LET nx == NextNibble(data, g, cur)
         IN DecodeIntLoop(data, g, i + 1, n, nx.cur,
                          Or32(res, ShlNib(ByteWord(nx.nib), i - n)))

\* decodeInt(data, &di, &half, &res)
DecodeInt(data, g, cur) ==
    LET hd == NextNibble(data, g, cur)
        n == HeadCount(hd.nib)
        res0 == IF hd.nib <= 8 THEN ZERO ELSE FillOnes(0, n, ZERO)
    IN IF n = 8 THEN [res |-> res0, cur |-> hd.cur]
       ELSE DecodeIntLoop(data, g, n, n, hd.cur, res0)

\* ------------------------------------------------------------------------
\* decodeCount and decodeLinear
\* ------------------------------------------------------------------------
\* if (di == (dataSize - 1) && half == 1)
AtLastLowNibble(data, cur) == cur.di = Len(data) - 1 /\ cur.half = 1

\* Mutant of StopsOn: the test is inverted.
StopsOnEight(nibble) == nibble = 8

\* if ((data[di] & 0xf) != 0x8) break;
StopsOn(nibble) == nibble # 8

\* (double) of an int, and y / 100000.0 in units of 1e-5
IntToDouble(x) == [q |-> SignedBig(x), f |-> 0]

\* The decoders' state: result[0 .. ri-1] as written so far, the cursor, and
\* for reference the integers decodeInt returned, the cursor after each call,
\* and what happened to a lone low nibble of the last byte (tail, tailNibble).
RECURSIVE DecodeCountLoop(_, _, _)
DecodeCountLoop(data, g, st) ==
    IF ~(st.cur.di < Len(data)) THEN st
    ELSE IF AtLastLowNibble(data, st.cur) /\ StopsOn(ReadByte(data, g, st.cur.di) % 16)
      THEN [st EXCEPT !.tail = "discarded",
                      !.tailNibble = ReadByte(data, g, st.cur.di) % 16]
    ELSE LET r == DecodeInt(data, g, st.cur)
         IN DecodeCountLoop(data, g,
              [st EXCEPT !.cur = r.cur,
                         !.result = Append(st.result, IntToDouble(r.res)),
                         !.ints = Append(st.ints, r.res),
                         !.cursors = Append(st.cursors, [di |-> r.cur.di, half |-> r.cur.half]),
                         !.tail = IF AtLastLowNibble(data, st.cur) THEN "decoded" ELSE st.tail,
                         !.tailNibble = IF AtLastLowNibble(data, st.cur)
                                        THEN ReadByte(data, g, st.cur.di) % 16
                                        ELSE st.tailNibble])

\* decodeCount(data, result): half = 0; ri = 0; di = 0; while (di < dataSize) ...
DecodeCount(data, g) ==
    DecodeCountLoop(data, g,
        [cur |-> [di |-> 0, half |-> 0, maxRead |-> -1], result |-> <<>>,
         ints |-> <<>>, cursors |-> <<>>, tail |-> "none", tailNibble |-> 0])

\* ints[k] = ints[k] | ((0xff & data[i]) << (i*8)) for i = 0..3, from byte `from`
HeaderWord(data, g, from) ==
    Or32(Or32(ByteWord(ReadByte(data, g, from)),
              ShlNib(ByteWord(ReadByte(data, g, from + 1)), 2)),
         Or32(ShlNib(ByteWord(ReadByte(data, g, from + 2)), 4),
              ShlNib(ByteWord(ReadByte(data, g, from + 3)), 6)))

\* while (di < dataSize) { ints[0] = ints[1]; ints[1] = ints[2]; ...
\*   decodeInt(data, &di, &half, &ints[2]);
\*   extrapol = ints[1] + (ints[1] - ints[0]);  y = extrapol + ints[2];
\*   result[ri++] = y / 100000.0;  ints[2] = y; }
\* The int additions wrap modulo 2^32.
RECURSIVE DecodeLinearLoop(_, _, _)
DecodeLinearLoop(data, g, st) ==
    IF ~(st.cur.di < Len(data)) THEN st
    ELSE IF AtLastLowNibble(data, st.cur) /\ StopsOn(ReadByte(data, g, st.cur.di) % 16)
      THEN [st EXCEPT !.tail = "discarded",
                      !.tailNibble = ReadByte(data, g, st.cur.di) % 16]
    ELSE LET r == DecodeInt(data, g, st.cur)
             y == Add32(Extrapol(st.i1, st.i2), r.res)
         IN DecodeLinearLoop(data, g,
              [st EXCEPT !.cur = r.cur, !.i1 = st.i2, !.i2 = y,
                         !.result = Append(st.result, IntToDouble(y)),
                         !.ints = Append(st.ints, r.res),
                         !.cursors = Append(st.cursors, [di |-> r.cur.di, half |-> r.cur.half]),
                         !.tail = IF AtLastLowNibble(data, st.cur) THEN "decoded" ELSE st.tail,
                         !.tailNibble = IF AtLastLowNibble(data, st.cur)
                                        THEN ReadByte(data, g, st.cur.di) % 16
                                        ELSE st.tailNibble])

\* decodeLinear(data, result): the two header words are read from data[0..7]
\* and result[0], result[1] are written whatever data.size() is; then
\* half = 0; ri = 2; di = 8; while (di < dataSize) ...
DecodeLinear(data, g) ==
    LET i1 == HeaderWord(data, g, 0)
        i2 == HeaderWord(data, g, 4)
    IN DecodeLinearLoop(data, g,
        [cur |-> [di |-> 8, half |-> 0, maxRead |-> 7], i1 |-> i1, i2 |-> i2,
         result |-> <<IntToDouble(i1), IntToDouble(i2)>>,
         ints |-> <<>>, cursors |-> <<>>, tail |-> "none", tailNibble |-> 0])

\* ------------------------------------------------------------------------
\* Inputs
\* ------------------------------------------------------------------------
\* a whole double given by the hexadecimal digits of its unsigned / signed value
UDbl(s) == [q |-> UnsignedBig(Hex(s)), f |-> 0]
SDbl(s) == [q |-> SignedBig(Hex(s)), f |-> 0]

\* Sample doubles for encodeLinear, in units of 1e-5:
\* 0.0, 1.0, 2.0, 3.0, 30000.0, 42000.0, -1.0 and -0.000007
LinearSamples ==
    { UDbl(<<0, 0, 0, 0, 0, 0, 0, 0>>),
      UDbl(<<0, 0, 0, 1, 8, 6, 10, 0>>),
      UDbl(<<0, 0, 0, 3, 0, 13, 4, 0>>),
      UDbl(<<0, 0, 0, 4, 9, 3, 14, 0>>),
      UDbl(<<11, 2, 13, 0, 5, 14, 0, 0>>),
      UDbl(<<15, 10, 5, 6, 14, 10, 0, 0>>),
      SDbl(<<15, 15, 15, 14, 7, 9, 6, 0>>),
      [q |-> <<-1, 65535>>, f |-> 3] }

\* Sample doubles for encodeCount, in units of 1:
\* 0, 23, 0x12345678, INT_MAX, 2147483648, 4294967294, 4294967295, 2.5, -2.0
CountSamples ==
    { UDbl(<<0, 0, 0, 0, 0, 0, 0, 0>>),
      UDbl(<<0, 0, 0, 0, 0, 0, 1, 7>>),
      UDbl(<<1, 2, 3, 4, 5, 6, 7, 8>>),
      UDbl(<<7, 15, 15, 15, 15, 15, 15, 15>>),
      UDbl(<<8, 0, 0, 0, 0, 0, 0, 0>>),
      UDbl(<<15, 15, 15, 15, 15, 15, 15, 14>>),
      UDbl(<<15, 15, 15, 15, 15, 15, 15, 15>>),
      [q |-> <<0, 2>>, f |-> 5],
      [q |-> <<-1, 65534>>, f |-> 0] }

RECURSIVE SeqsUpTo(_, _)
SeqsUpTo(S, n) ==
    IF n = 0 THEN {<<>>}
    ELSE LET shorter == SeqsUpTo(S, n - 1)
         IN shorter \cup {Append(t, e) : t \in {u \in shorter : Len(u) = n - 1}, e \in S}

Codecs == {"linear", "count"}
Inputs(c) == SeqsUpTo(IF c = "linear" THEN LinearSamples ELSE CountSamples, MaxLen)

\* Bytes of caller-supplied buffers: 0x00, 0x08, 0x88, 0x71, 0xf7
RawBytes == {0, 8, 136, 113, 247}
LinearHeader == <<160, 134, 1, 0, 64, 13, 3, 0>>
\* buffers handed to a decoder that no encoder need have produced: short
\* ones, and for decodeLinear also a full 8-byte header followed by a tail
RawBuffers(c) ==
    SeqsUpTo(RawBytes, MaxRaw)
      \cup (IF c = "linear" THEN {LinearHeader \o t : t \in SeqsUpTo(RawBytes, MaxRaw)}
                             ELSE {})

\* what an out-of-bounds read may yield when it does not fault
GarbageBytes == {0, 136}
JunkDoubles == {UDbl(<<0, 0, 0, 0, 0, 0, 0, 0>>), UDbl(<<11, 2, 13, 0, 5, 14, 0, 0>>)}

\* ------------------------------------------------------------------------
\* State
\* ------------------------------------------------------------------------
VARIABLES
    codec,    \* which codec pair the caller uses
    origin,   \* "encoder": buf comes from the encoder; "raw": supplied by the caller
    pc,       \* "start", "encoded", "decoded", "crashed"
    data,     \* the doubles handed to the encoder
    buf,      \* the byte buffer: the encoder's output, the decoder's input
    result,   \* the doubles the decoder wrote, result[0 .. ri-1]
    enc,      \* record of the encoder call: fixed-point words, integers, nibbles
    dec       \* record of the decoder call: integers, cursors, reads, tail, error

vars == <<codec, origin, pc, data, buf, result, enc, dec>>

NoEnc == [ints |-> <<>>, nibs |-> <<>>, fixed |-> <<>>]
NoDec == [ints |-> <<>>, cursors |-> <<>>, maxRead |-> -1, tail |-> "none",
          tailNibble |-> 0, error |-> FALSE]

Init ==
    /\ codec \in Codecs
    /\ \/ /\ origin = "encoder"
          /\ pc = "start"
          /\ data \in Inputs(codec)
          /\ buf = <<>>
       \/ /\ origin = "raw"
          /\ pc = "encoded"
          /\ data = <<>>
          /\ buf \in RawBuffers(codec)
    /\ result = <<>>
    /\ enc = NoEnc
    /\ dec = NoDec

Encoded(e) ==
    /\ pc' = "encoded"
    /\ buf' = e.bytes
    /\ enc' = [ints |-> e.ints, nibs |-> e.nibs, fixed |-> e.fixed]
    /\ UNCHANGED <<codec, origin, data, result, dec>>

\* junk stands for what lies behind the array; it is read only when
\* dataSize < 2.
EncodeLinearCall ==
    /\ pc = "start"
    /\ codec = "linear"
    /\ \E mode \in CastModes :
          \E junk \in (IF Len(data) < 2 THEN JunkDoubles ELSE {data[1]}) :
              Encoded(EncodeLinear(data, mode, junk))

EncodeCountCall ==
    /\ pc = "start"
    /\ codec = "count"
    /\ \E mode \in CastModes : Encoded(EncodeCount(data, mode))

\* The decoder returned.  Nothing inside the try block throws (operator[] does
\* not check bounds), so the catch block that prints DECODE ERROR never runs:
\* error stays FALSE.
Decoded(d) ==
    /\ pc' = "decoded"
    /\ result' = d.result
    /\ dec' = [ints |-> d.ints, cursors |-> d.cursors, maxRead |-> d.cur.maxRead,
               tail |-> d.tail, tailNibble |-> d.tailNibble, error |-> FALSE]
    /\ UNCHANGED <<codec, origin, data, buf, enc>>

\* The other outcome of a read beyond the buffer: the process faults.
Crashed(d) ==
    /\ d.cur.maxRead >= Len(buf)
    /\ pc' = "crashed"
    /\ UNCHANGED <<codec, origin, data, buf, result, enc, dec>>

DecodeLinearCall ==
    /\ pc = "encoded"
    /\ codec = "linear"
    /\ \E g \in GarbageBytes :
          \/ Decoded(DecodeLinear(buf, g))
          \/ Crashed(DecodeLinear(buf, g))

DecodeCountCall ==
    /\ pc = "encoded"
    /\ codec = "count"
    /\ \E g \in GarbageBytes :
          \/ Decoded(DecodeCount(buf, g))
          \/ Crashed(DecodeCount(buf, g))

Next ==
    \/ EncodeLinearCall
    \/ EncodeCountCall
    \/ DecodeLinearCall
    \/ DecodeCountCall

Spec == Init /\ [][Next]_vars

\* ------------------------------------------------------------------------
\* Vocabulary of the properties
\* ------------------------------------------------------------------------
\* the index of the first byte of the nibble stream (after the linear header)
FirstNibbleByte == IF codec = "linear" THEN 8 ELSE 0

\* the total number of nibbles in the first i entries of nibs
RECURSIVE NibblesThrough(_, _)
NibblesThrough(nibs, i) == IF i = 0 THEN 0 ELSE Len(nibs[i]) + NibblesThrough(nibs, i - 1)

\* the cursor that stands p nibbles into the stream
CursorAt(p) == [di |-> FirstNibbleByte + p \div 2, half |-> p % 2]

\* the number of leading (most significant) nibbles of x equal to v
RECURSIVE LeadingRun(_, _, _)
LeadingRun(x, v, k) == IF k = 0 \/ x[k] # v THEN 0 ELSE 1 + LeadingRun(x, v, k - 1)

\* the nibble sequence the format description prescribes for x
FormatNibbles(x) ==
    LET l == IF x[8] = 0 THEN LeadingRun(x, 0, 8)
             ELSE IF x[8] = 15 THEN Min({LeadingRun(x, 15, 8), 7})
             ELSE 0
        header == IF x[8] = 15 THEN l + 8 ELSE l
    IN <<header>> \o [j \in 1..(8 - l) |-> x[j]]

MinusOne == Hex(<<15, 15, 15, 15, 15, 15, 15, 15>>)
TwentyThree == Hex(<<0, 0, 0, 0, 0, 0, 1, 7>>)

\* |out - in| <= tenths/10 units, for doubles out and in
Within(out, in, tenths) ==
    LET dh == out.q[1] - in.q[1]
    IN /\ dh \in -1..1
       /\ LET diff == 10 * (dh * 65536 + out.q[2] - in.q[2]) + out.f - in.f
          IN diff <= tenths /\ -diff <= tenths

BigLeq(a, b) == a[1] < b[1] \/ (a[1] = b[1] /\ a[2] <= b[2])
\* -42000 <= d <= 42000, d in units of 1e-5
InLinearRange(d) ==
    /\ BigLeq(<<-64087, 5632>>, d.q)
    /\ BigLeq(d.q, <<64086, 59904>>)
    /\ (d.q = <<64086, 59904>> => d.f = 0)

\* d is a whole number in 0 .. 4294967294
InCountRange(d) == d.f = 0 /\ BigLeq(<<0, 0>>, d.q) /\ BigLeq(d.q, <<65535, 65534>>)

\* a 32-bit word as four bytes, least significant first
LittleEndian(w) == <<w[1] + 16 * w[2], w[3] + 16 * w[4], w[5] + 16 * w[6], w[7] + 16 * w[8]>>

ConstantDifference(fixed) ==
    \A i \in 3..Len(fixed) : Sub32(fixed[i], fixed[i - 1]) = Sub32(fixed[i - 1], fixed[i - 2])

OneTwoThree == <<UDbl(<<0, 0, 0, 1, 8, 6, 10, 0>>), UDbl(<<0, 0, 0, 3, 0, 13, 4, 0>>),
                 UDbl(<<0, 0, 0, 4, 9, 3, 14, 0>>)>>

\* ------------------------------------------------------------------------
\* Properties
\* ------------------------------------------------------------------------
\* C1: the integers decodeInt returns, call by call, are the integers encodeInt
\* was given, and after its i-th call the cursor (di, half) stands exactly
\* behind the nibbles the first i encodeInt calls emitted (half toggles once
\* per nibble, di advances after a low nibble only).
C1_IntRoundTrip ==
    (pc = "decoded" /\ origin = "encoder") =>
        /\ dec.ints = enc.ints
        /\ Len(dec.cursors) = Len(enc.nibs)
        /\ \A i \in 1..Len(dec.cursors) :
              dec.cursors[i] = CursorAt(NibblesThrough(enc.nibs, i))

\* C1 witness: 0x12345678 (nine nibbles, the odd one carried over), 0 and -1
\* have been encoded and decoded again.
C1_Witness ==
    /\ pc = "decoded" /\ origin = "encoder" /\ codec = "count"
    /\ enc.ints = <<Hex(<<1, 2, 3, 4, 5, 6, 7, 8>>), ZERO, MinusOne>>
    /\ dec.ints = enc.ints
    /\ dec.cursors = <<[di |-> 4, half |-> 1], [di |-> 5, half |-> 0], [di |-> 6, half |-> 0]>>

\* C2: after encodeLinear then decodeLinear of at least two doubles, all within
\* [-42000, 42000], as many doubles come back and each is within 5e-6 (half a
\* unit of 1e-5) of the original.
C2_LinearErrorBound ==
    ( /\ pc = "decoded" /\ origin = "encoder" /\ codec = "linear"
      /\ Len(data) >= 2
      /\ \A i \in 1..Len(data) : InLinearRange(data[i]) ) =>
        /\ Len(result) = Len(data)
        /\ \A i \in 1..Len(data) : Within(result[i], data[i], 5)

\* C3: encodeCount then decodeCount of a single whole number n in
\* 0 .. 4294967294 gives back exactly [n].
C3_CountRoundTrip ==
    ( /\ pc = "decoded" /\ origin = "encoder" /\ codec = "count"
      /\ Len(data) = 1 /\ InCountRange(data[1]) ) =>
        result = <<data[1]>>

\* C4: encodeLinear reports at most 5 * n bytes for an array of n doubles.
C4_EncodeLinearBound ==
    (pc = "encoded" /\ origin = "encoder" /\ codec = "linear") =>
        Len(buf) <= 5 * Len(data)

\* C5: decodeLinear and decodeCount write at most 2 * byteCount values: every
\* index ri written (0 .. Len(result) - 1) is below 2 * byteCount.
C5_DecodeBound ==
    pc = "decoded" => Len(result) <= 2 * Len(buf)

\* C6: decoding never faults, never reads a byte at an index >= the buffer
\* length, and reports a decode error for a buffer cut short (here: a linear
\* buffer shorter than its 8 header bytes).
C6_NoOverreadAndError ==
    /\ pc # "crashed"
    /\ pc = "decoded" =>
          /\ dec.maxRead < Len(buf)
          /\ (codec = "linear" /\ Len(buf) < 8) => dec.error

\* C7: every encodeInt call emits the header nibble and the 8 - l low nibbles
\* the format prescribes, 1 + (8 - l) nibbles in all (1 to 9); 0 gives [0x8],
\* 23 gives [0x6, 0x7, 0x1] and -1 gives [0xf, 0xf].
C7_EncodeIntFormat ==
    /\ Len(enc.nibs) = Len(enc.ints)
    /\ \A i \in 1..Len(enc.ints) :
          /\ enc.nibs[i] = FormatNibbles(enc.ints[i])
          /\ Len(enc.nibs[i]) \in 1..9
          /\ enc.ints[i] = ZERO => enc.nibs[i] = <<8>>
          /\ enc.ints[i] = TwentyThree => enc.nibs[i] = <<6, 7, 1>>
          /\ enc.ints[i] = MinusOne => enc.nibs[i] = <<15, 15>>

\* C7 witness: 0, 23 and -1 have been encoded.
C7_Witness ==
    /\ pc = "encoded"
    /\ enc.ints = <<ZERO, TwentyThree, MinusOne>>
    /\ enc.nibs = <<(<<8>>), <<6, 7, 1>>, <<15, 15>>>>

\* C8 as stated: a lone low nibble of the last byte is decoded when it is not
\* 0x8 and discarded as padding when it is 0x8.
C8_AsStated ==
    (pc = "decoded" /\ dec.tail # "none") =>
        /\ dec.tailNibble # 8 => dec.tail = "decoded"
        /\ dec.tailNibble = 8 => dec.tail = "discarded"

\* C8 amended: a lone low nibble of the last byte is decoded as a final value
\* (the integer 0) when it is 0x8, and discarded as padding, ending the
\* decoding, when it is not 0x8.
C8_TailNibble ==
    (pc = "decoded" /\ dec.tail # "none") =>
        /\ dec.tailNibble = 8 =>
              /\ dec.tail = "decoded"
              /\ dec.ints[Len(dec.ints)] = ZERO
              /\ dec.cursors[Len(dec.cursors)] = [di |-> Len(buf), half |-> 0]
        /\ dec.tailNibble # 8 =>
              /\ dec.tail = "discarded"
              /\ \A i \in 1..Len(dec.cursors) :
                    dec.cursors[i].di < Len(buf)

\* C8 witness: a decoder met a lone low nibble 0x8 in the last byte and
\* decoded it.
C8_Witness ==
    pc = "decoded" /\ dec.tail = "decoded" /\ dec.tailNibble = 8

\* C9: the decoder outputs exactly as many values as were encoded (any number
\* for the count codec, at least two for the linear codec); the padding nibble
\* of an odd nibble stream is discarded, and a final value that is the lone
\* low nibble of the last byte is decoded.
C9_ValueCountPreserved ==
    ( /\ pc = "decoded" /\ origin = "encoder"
      /\ codec = "count" \/ Len(data) >= 2 ) =>
        LET total == NibblesThrough(enc.nibs, Len(enc.nibs))
        IN /\ Len(result) = Len(data)
           /\ total % 2 = 1 => (dec.tail = "discarded" /\ dec.tailNibble = 0)
           /\ (total > 0 /\ total % 2 = 0 /\ enc.nibs[Len(enc.nibs)] = <<8>>) =>
                 dec.tail = "decoded"

\* C9 witness: values whose stream ends in a real 0x8 in the low nibble of the
\* last byte were encoded and as many values decoded.
C9_Witness ==
    /\ pc = "decoded" /\ origin = "encoder"
    /\ Len(data) >= 2 /\ Len(result) = Len(data)
    /\ Len(enc.nibs) > 0
    /\ NibblesThrough(enc.nibs, Len(enc.nibs)) % 2 = 0
    /\ enc.nibs[Len(enc.nibs)] = <<8>>
    /\ dec.tail = "decoded"

====
